---- MODULE Spec2Model ----
(***************************************************************************)
(* A model of the Greek treebank query engine (src/engine.py): the feature *)
(* decoder, the corpus builder (xml_to_words and GreekQueryEngine.__init__)*)
(* and the selector evaluator (GreekQueryEngine.query and its handlers).   *)
(*                                                                         *)
(* A word is identified by its position in the engine's word list (the     *)
(* Python object identity); child lists, the by-identifier index and the   *)
(* per-sentence lists hold such positions.  Text that the code inspects    *)
(* character by character (postag, lemma) is a sequence of one-character   *)
(* strings.                                                                *)
(***************************************************************************)
EXTENDS Integers, Sequences, FiniteSets, TLC

(***************************************************************************)
(* Bounds of the model.                                                    *)
(***************************************************************************)
MaxWords == 3
MaxThreads == 2
MaxCode == 10
MaxCalls == 2

(***************************************************************************)
(* Python's None.  It is never equal to a str, so every comparison of an   *)
(* optional field with selector text goes through PyEq.                    *)
(***************************************************************************)
None == "None"

PyEq(value, text) == value # None /\ value = text

(***************************************************************************)
(* Feature decoder: GreekTextParser.postag_mappings and parse_postag.      *)
(* A table is a set of <<character, name>> pairs.                          *)
(***************************************************************************)
postag_mappings ==
  [ part_of_speech |->
      { <<"n", "noun">>, <<"v", "verb">>, <<"t", "participle">>,
        <<"a", "adjective">>, <<"d", "adverb">>, <<"l", "article">>,
        <<"g", "particle">>, <<"c", "conjunction">>, <<"r", "preposition">>,
        <<"p", "pronoun">>, <<"m", "numeral">>, <<"i", "interjection">>,
        <<"e", "exclamation">>, <<"u", "punctuation">>, <<"x", "irregular">> },
    person |-> { <<"1", "first">>, <<"2", "second">>, <<"3", "third">> },
    number |-> { <<"s", "singular">>, <<"d", "dual">>, <<"p", "plural">> },
    tense |->
      { <<"p", "present">>, <<"i", "imperfect">>, <<"r", "perfect">>,
        <<"l", "pluperfect">>, <<"t", "future perfect">>, <<"f", "future">>,
        <<"a", "aorist">> },
    mood |->
      { <<"i", "indicative">>, <<"s", "subjunctive">>, <<"o", "optative">>,
        <<"n", "infinitive">>, <<"m", "imperative">>, <<"d", "gerund">>,
        <<"g", "gerundive">> },
    voice |->
      { <<"a", "active">>, <<"p", "passive">>, <<"m", "middle">>,
        <<"e", "middle-passive">> },
    gender |-> { <<"m", "masculine">>, <<"f", "feminine">>, <<"n", "neuter">> },
    case |->
      { <<"n", "nominative">>, <<"g", "genitive">>, <<"d", "dative">>,
        <<"a", "accusative">>, <<"v", "vocative">>, <<"l", "locative">> },
    degree |-> { <<"c", "comparative">>, <<"s", "superlative">> } ]

\* The nine categories in code position order (parse_postag's `mappings`).
FeatureNames ==
  << "part_of_speech", "person", "number", "tense", "mood", "voice",
     "gender", "case", "degree" >>

PostagWidth == 9

\* dict.get(char): the table's name for the character, or None.
TableGet(table, char) ==
  IF \E p \in table : p[1] = char
  THEN (CHOOSE p \in table : p[1] = char)[2]
  ELSE None

\* Ljust without the padding: the code as it was given.
Ljust_NoPad(code) == code

\* str.ljust(9, '-') for a code shorter than 9; longer codes are kept.
Ljust(code) ==
  IF Len(code) < PostagWidth
  THEN code \o [i \in 1 .. (PostagWidth - Len(code)) |-> "-"]
  ELSE code

DecodeAt(padded, name, index) ==
  IF padded[index] # "-"
  THEN TableGet(postag_mappings[name], padded[index])
  ELSE None

\* postag[index] raises IndexError when the code has no such position.
IndexError == [raised |-> "IndexError"]

parse_postag(code) ==
  LET padded == Ljust(code) IN
  IF Len(padded) < PostagWidth THEN IndexError
  ELSE
  [ part_of_speech |-> DecodeAt(padded, "part_of_speech", 1),
    person |-> DecodeAt(padded, "person", 2),
    number |-> DecodeAt(padded, "number", 3),
    tense |-> DecodeAt(padded, "tense", 4),
    mood |-> DecodeAt(padded, "mood", 5),
    voice |-> DecodeAt(padded, "voice", 6),
    gender |-> DecodeAt(padded, "gender", 7),
    case |-> DecodeAt(padded, "case", 8),
    degree |-> DecodeAt(padded, "degree", 9) ]

(***************************************************************************)
(* Corpus builder, first half: xml_to_words.  A document is the sequence   *)
(* of its <word> nodes in document order, each carrying the id of the      *)
(* <sentence> that encloses it.                                            *)
(***************************************************************************)
\* str.replace('1', ''): every '1' is removed.
StripOnes(lemma) == SelectSeq(lemma, LAMBDA c : c # "1")

\* The Word the parser builds for one <word> node.
Word(node) ==
  LET features == parse_postag(node.postag) IN
  [ form |-> node.form,
    lemma |-> StripOnes(node.lemma),
    id |-> node.id,
    parent_id |-> node.head,
    sentence_id |-> node.sentence,
    relation |-> node.relation,
    part_of_speech |-> features.part_of_speech,
    person |-> features.person,
    number |-> features.number,
    tense |-> features.tense,
    mood |-> features.mood,
    voice |-> features.voice,
    gender |-> features.gender,
    case |-> features.case,
    degree |-> features.degree ]

xml_to_words(document) == [i \in 1 .. Len(document) |-> Word(document[i])]

(***************************************************************************)
(* Corpus builder, second half: GreekQueryEngine.__init__.                 *)
(***************************************************************************)
\* {word.id: word for word in words}: a later word replaces an earlier one
\* that has the same id.
BuildIndex(ws) ==
  [ k \in {ws[i].id : i \in DOMAIN ws} |->
      CHOOSE i \in DOMAIN ws :
        /\ ws[i].id = k
        /\ \A j \in DOMAIN ws : ws[j].id = k => j <= i ]

\* The positions of the word list, in order.
Indices(ws) == [i \in 1 .. Len(ws) |-> i]

\* words_by_sentence: each sentence's words in the order of the word list.
GroupBySentence(ws) ==
  [ sid \in {ws[i].sentence_id : i \in DOMAIN ws} |->
      SelectSeq(Indices(ws), LAMBDA i : ws[i].sentence_id = sid) ]

\* The linking pass without the index: a word is appended to the child
\* list of every word whose id is its parent_id.
LinkChildren_EveryHolder(ws, index) ==
  [ p \in DOMAIN ws |->
      SelectSeq(Indices(ws), LAMBDA i : ws[i].parent_id = ws[p].id) ]

\* The linking pass: a word is appended to the child list of the word its
\* parent_id is indexed to, in the order of the word list.
LinkChildren(ws, index) ==
  [ p \in DOMAIN ws |->
      SelectSeq(Indices(ws),
                LAMBDA i : ws[i].parent_id \in DOMAIN index
                           /\ index[ws[i].parent_id] = p) ]

\* The sentence ids in the order dict.values() visits them: the order in
\* which each id first occurs in the word list.
SentenceOrder(ws) ==
  LET first == SelectSeq(Indices(ws),
                         LAMBDA i : \A j \in 1 .. (i - 1) :
                                      ws[j].sentence_id # ws[i].sentence_id)
  IN  [n \in 1 .. Len(first) |-> ws[first[n]].sentence_id]

(***************************************************************************)
(* The state.  words, words_by_id, words_by_sentence and children are the  *)
(* engine's corpus; selector, results and outcome are the last query()     *)
(* call and what it returned ("ok") or raised; postag, features and calls  *)
(* are a code given to the decoder, what parse_postag last returned for it *)
(* and how many times it was called; urn gives, for each word, the source  *)
(* document it was read from.                                              *)
(***************************************************************************)
VARIABLES words, words_by_id, words_by_sentence, children,
          selector, results, outcome,
          threads,
          postag, features, calls,
          urn

corpus == << words, words_by_id, words_by_sentence, children >>

decoder == << postag, features, calls >>

vars == << words, words_by_id, words_by_sentence, children,
           selector, results, outcome, threads, postag, features, calls,
           urn >>

(***************************************************************************)
(* Selectors.  A simple selector is the record of what is written in it,   *)
(* in the grammar's order attr* pseudo* text:                              *)
(*   attrs   the [name=value] predicates, as <<name, value>> pairs;        *)
(*   root    whether :root is written;                                     *)
(*   before, after   << >> or <<X>>, X the simple selector inside          *)
(*           :before(...) / :after(...);                                   *)
(*   pseudos the other :token pseudo-classes;                              *)
(*   text    the bare text, a sequence of characters.                      *)
(* A comma-free selector is its operands (parts) and the combinators       *)
(* written between them (ops); a query is the sequence of comma-free       *)
(* selectors that the commas separate.                                     *)
(***************************************************************************)
Simple(attrs, root, before, after, pseudos, text) ==
  [ attrs |-> attrs, root |-> root, before |-> before, after |-> after,
    pseudos |-> pseudos, text |-> text ]

EmptySelector == Simple(<< >>, FALSE, << >>, << >>, << >>, << >>)

Pseudo(token) == Simple(<< >>, FALSE, << >>, << >>, <<token>>, << >>)

Attr(name, value) ==
  Simple(<< <<name, value>> >>, FALSE, << >>, << >>, << >>, << >>)

Lemma(text) == Simple(<< >>, FALSE, << >>, << >>, << >>, text)

RootSelector == Simple(<< >>, TRUE, << >>, << >>, << >>, << >>)

Before(inner) == Simple(<< >>, FALSE, <<inner>>, << >>, << >>, << >>)

After(inner) == Simple(<< >>, FALSE, << >>, <<inner>>, << >>, << >>)

\* Two simple selectors written one after the other ("[a=b]" ":noun").
And(s, t) ==
  Simple(s.attrs \o t.attrs, s.root \/ t.root,
         IF s.before # << >> THEN s.before ELSE t.before,
         IF s.after # << >> THEN s.after ELSE t.after,
         s.pseudos \o t.pseudos, s.text \o t.text)

Rel(parts, ops) == [parts |-> parts, ops |-> ops]

Plain(s) == Rel(<<s>>, << >>)

Binary(a, op, b) == Rel(<<a, b>>, <<op>>)

(***************************************************************************)
(* Simple-selector matching: _word_matches_selector and its helpers.       *)
(* ws is the word list, wbs the per-sentence lists as they are when the    *)
(* code reads them.                                                        *)
(***************************************************************************)
StrFields == {"form", "relation"}

\* hasattr(word, name) and getattr(word, name) == value, value a str (for
\* the lemma, its characters): an int field or the child list never equals
\* a str, and a name that is no field fails hasattr.
AttrHolds(word, attr) ==
  LET name == attr[1]
      value == attr[2]
  IN  CASE name \in StrFields -> word[name] = value
        [] name = "lemma" -> word.lemma = value
        [] name \in {FeatureNames[i] : i \in DOMAIN FeatureNames} ->
             PyEq(word[name], value)
        [] OTHER -> FALSE

\* RootHolds without the test of the relation.
RootHolds_AnyRelation(word) == word.parent_id = 0

\* word.parent_id != 0 or word.relation == 'AuxK' -> return False
RootHolds(word) == ~ (word.parent_id # 0 \/ word.relation = "AuxK")

\* _matches_linguistic_feature: the token equals one of the nine features.
_matches_linguistic_feature(word, feature) ==
  \E i \in DOMAIN FeatureNames : PyEq(word[FeatureNames[i]], feature)

\* The attribute predicates in the selector's text, in text order: the
\* attribute regex searches the whole text, :before(...) and :after(...)
\* included.
AllAttrs(sel) ==
  sel.attrs
    \o (IF sel.before # << >> THEN sel.before[1].attrs ELSE << >>)
    \o (IF sel.after # << >> THEN sel.after[1].attrs ELSE << >>)

\* ':root' in selector: anywhere in the text.
HasRoot(sel) ==
  \/ sel.root
  \/ sel.before # << >> /\ sel.before[1].root
  \/ sel.after # << >> /\ sel.after[1].root

\* What is left of the selector inside :before(...) / :after(...) once the
\* attribute predicates and ':root' have been substituted away.
Remainder(inner) ==
  Simple(<< >>, FALSE, << >>, << >>, inner.pseudos, inner.text)

\* r':before\(([^)]+)\)' needs one character or more between the brackets.
RegexMatches(wrapped) ==
  wrapped # << >>
    /\ (wrapped[1].pseudos # << >> \/ wrapped[1].text # << >>)

\* r':(\w+)' on a token as written after the colon: the regex takes the
\* word characters the token starts with and leaves the rest in the text.
\* Of the names in the tables, two have a character that is no word
\* character; every other token here is word characters throughout.
WordPart(token) ==
  CASE token = "middle-passive" -> "middle"
    [] token = "future perfect" -> "future"
    [] OTHER -> token

RestPart(token) ==
  CASE token = "middle-passive" -> <<"-", "p", "a", "s", "s", "i", "v", "e">>
    [] token = "future perfect" -> <<" ", "p", "e", "r", "f", "e", "c", "t">>
    [] OTHER -> << >>

\* The pseudo-classes re.findall(r':(\w+)') finds at the end: a ':before()'
\* or ':after()' that its regex did not match is still in the text.
ResiduePseudos(sel) ==
  (IF sel.before # << >> /\ ~ RegexMatches(sel.before)
   THEN <<"before">> ELSE << >>)
    \o (IF sel.after # << >> /\ ~ RegexMatches(sel.after)
        THEN <<"after">> ELSE << >>)
    \o [n \in DOMAIN sel.pseudos |-> WordPart(sel.pseudos[n])]

\* What r':\w+' leaves of the pseudo-classes from the n-th on.
RECURSIVE PseudoRest(_, _)
PseudoRest(pseudos, n) ==
  IF n > Len(pseudos) THEN << >>
  ELSE RestPart(pseudos[n]) \o PseudoRest(pseudos, n + 1)

\* Leading and trailing blanks removed (str.strip()).
RECURSIVE Strip(_)
Strip(text) ==
  IF text = << >> THEN text
  ELSE IF Head(text) = " " THEN Strip(Tail(text))
  ELSE IF text[Len(text)] = " " THEN Strip(SubSeq(text, 1, Len(text) - 1))
  ELSE text

\* lemma_parts: the text left when every ':token' and '[...]' is removed.
ResidueText(sel) ==
  Strip((IF sel.before # << >> /\ ~ RegexMatches(sel.before)
         THEN <<"(", ")">> ELSE << >>)
          \o (IF sel.after # << >> /\ ~ RegexMatches(sel.after)
              THEN <<"(", ")">> ELSE << >>)
          \o PseudoRest(sel.pseudos, 1)
          \o sel.text)

RECURSIVE _word_matches_selector(_, _, _, _),
          _check_word_order_condition(_, _, _, _, _)

\* _word_matches_selector(word, selector), w the word's position in ws.
_word_matches_selector(ws, wbs, w, sel) ==
  /\ AllAttrs(sel) # << >> => AttrHolds(ws[w], AllAttrs(sel)[1])
  /\ HasRoot(sel) => RootHolds(ws[w])
  /\ RegexMatches(sel.before) =>
       _check_word_order_condition(ws, wbs, w, Remainder(sel.before[1]),
                                   "before")
  /\ RegexMatches(sel.after) =>
       _check_word_order_condition(ws, wbs, w, Remainder(sel.after[1]),
                                   "after")
  /\ \A n \in DOMAIN ResiduePseudos(sel) :
       _matches_linguistic_feature(ws[w], ResiduePseudos(sel)[n])
  /\ ResidueText(sel) # << >> => ws[w].lemma = ResidueText(sel)

\* _check_word_order_condition(word, selector, direction)
_check_word_order_condition(ws, wbs, w, sel, direction) ==
  LET sentence_words ==
        IF ws[w].sentence_id \in DOMAIN wbs
        THEN wbs[ws[w].sentence_id] ELSE << >>
      target_words ==
        SelectSeq(sentence_words,
                  LAMBDA t : _word_matches_selector(ws, wbs, t, sel))
  IN  \E n \in DOMAIN target_words :
        \/ direction = "before" /\ ws[w].id < ws[target_words[n]].id
        \/ direction = "after" /\ ws[w].id > ws[target_words[n]].id

\* _match_single_selector: the matching words in word-list order.
_match_single_selector(ws, wbs, sel) ==
  SelectSeq(Indices(ws), LAMBDA w : _word_matches_selector(ws, wbs, w, sel))

(***************************************************************************)
(* Splitting a comma-free selector on one combinator, and reading a piece  *)
(* of it as a simple selector.                                             *)
(***************************************************************************)
\* selector.split(' op '): the pieces between the occurrences of op; a
\* piece keeps the other combinators written inside it.
Split(rel, op) ==
  LET cuts == SelectSeq([i \in 1 .. Len(rel.ops) |-> i],
                        LAMBDA i : rel.ops[i] = op)
      first(k) == IF k = 1 THEN 1 ELSE cuts[k - 1] + 1
      last(k) == IF k = Len(cuts) + 1 THEN Len(rel.parts) ELSE cuts[k]
  IN  [ k \in 1 .. (Len(cuts) + 1) |->
          Rel(SubSeq(rel.parts, first(k), last(k)),
              SubSeq(rel.ops, first(k), last(k) - 1)) ]

\* The text of a piece, read as one simple selector: a combinator left in
\* it is bare text between its neighbours' predicates.  (Pieces that keep a
\* combinator are written without :before / :after.)
RECURSIVE AsSimple(_)
AsSimple(piece) ==
  IF Len(piece.parts) = 1 THEN piece.parts[1]
  ELSE And(And(piece.parts[1], Lemma(<<" ", piece.ops[1], " ">>)),
           AsSimple(Rel(Tail(piece.parts), Tail(piece.ops))))

\* sub_selector.strip(): a combinator next to an empty first or last operand
\* loses the blank that made it a combinator and becomes bare text.
StripSelector(rel) ==
  LET lead ==
        IF rel.ops # << >> /\ rel.parts[1] = EmptySelector
        THEN Rel(<<And(Lemma(<<rel.ops[1], " ">>), rel.parts[2])>>
                   \o Tail(Tail(rel.parts)),
                 Tail(rel.ops))
        ELSE rel
      n == Len(lead.parts)
  IN  IF lead.ops # << >> /\ lead.parts[n] = EmptySelector
      THEN Rel(SubSeq(lead.parts, 1, n - 2)
                 \o <<And(lead.parts[n - 1], Lemma(<<" ", lead.ops[n - 1]>>))>>,
               SubSeq(lead.ops, 1, n - 2))
      ELSE lead

(***************************************************************************)
(* The combinator handlers.  Each returns the list query() returns, as a   *)
(* sequence of word positions.                                             *)
(***************************************************************************)
\* The concatenation of a sequence of sequences.
RECURSIVE Flatten(_)
Flatten(seqs) ==
  IF seqs = << >> THEN << >> ELSE Head(seqs) \o Flatten(Tail(seqs))

\* MatchingChildren without the structural hop: every word that matches
\* the child selector.
MatchingChildren_AnyWord(ws, wbs, kids, parent, child_selector) ==
  SelectSeq(Indices(ws),
            LAMBDA c : _word_matches_selector(ws, wbs, c, child_selector))

\* The children of one parent that match the child selector, in list order.
MatchingChildren(ws, wbs, kids, parent, child_selector) ==
  SelectSeq(kids[parent],
            LAMBDA c : _word_matches_selector(ws, wbs, c, child_selector))

\* _handle_parent_child
_handle_parent_child(ws, wbs, kids, rel) ==
  LET parts == Split(rel, ">") IN
  IF Len(parts) # 2 THEN << >>
  ELSE LET parent_words == _match_single_selector(ws, wbs, AsSimple(parts[1]))
       IN  Flatten([ n \in 1 .. Len(parent_words) |->
                       MatchingChildren(ws, wbs, kids, parent_words[n],
                                        AsSimple(parts[2])) ])

\* SortById that turns the list round instead of sorting it.
SortById_Reversed(ws, list) ==
  [i \in 1 .. Len(list) |-> list[Len(list) + 1 - i]]

\* SortById without the sort: the list as it was supplied.
SortById_Unsorted(ws, list) == list

\* list.sort(key=lambda w: w.id): a stable sort, here by insertion.
RECURSIVE SortById(_, _)
SortById(ws, list) ==
  IF list = << >> THEN << >>
  ELSE LET n == Len(list)
           sorted == SortById(ws, SubSeq(list, 1, n - 1))
           x == list[n]
           keep == SelectSeq(sorted, LAMBDA y : ws[y].id <= ws[x].id)
           rest == SelectSeq(sorted, LAMBDA y : ws[y].id > ws[x].id)
       IN  keep \o <<x>> \o rest

\* Whether the words at positions i .. i + len(parts) - 1 of the sentence
\* list match the parts one by one.
WindowMatches(ws, wbs, sentence_words, parts, i) ==
  \A j \in 1 .. Len(parts) :
    _word_matches_selector(ws, wbs, sentence_words[i + j - 1],
                           AsSimple(parts[j]))

\* The inner loop of _handle_adjacent over one (sorted) sentence list.
AdjacentInSentence(ws, wbs, sentence_words, parts) ==
  LET last == Len(sentence_words) - Len(parts) + 1 IN
  Flatten([ i \in 1 .. (IF last > 0 THEN last ELSE 0) |->
              IF WindowMatches(ws, wbs, sentence_words, parts, i)
              THEN SubSeq(sentence_words, i, i + Len(parts) - 1)
              ELSE << >> ])

\* The outer loop of _handle_adjacent from the n-th sentence on: the
\* sentence's list is sorted in place, then scanned.  The value is the
\* per-sentence lists and the results at the end.
RECURSIVE AdjacentFrom(_, _, _, _, _)
AdjacentFrom(ws, wbs, order, parts, n) ==
  IF n > Len(order) THEN [wbs |-> wbs, results |-> << >>]
  ELSE LET sid == order[n]
           sorted == [wbs EXCEPT ![sid] = SortById(ws, wbs[sid])]
           here == AdjacentInSentence(ws, sorted, sorted[sid], parts)
           rest == AdjacentFrom(ws, sorted, order, parts, n + 1)
       IN  [wbs |-> rest.wbs, results |-> here \o rest.results]

\* _handle_adjacent
_handle_adjacent(ws, wbs, rel) ==
  LET parts == Split(rel, "+") IN
  IF Len(parts) < 2 THEN [wbs |-> wbs, results |-> << >>]
  ELSE AdjacentFrom(ws, wbs, SentenceOrder(ws), parts, 1)

\* Precedes with <= in place of <.
Precedes_OrEqual(ws, first_word, second_word) ==
  /\ ws[first_word].sentence_id = ws[second_word].sentence_id
  /\ ws[first_word].id <= ws[second_word].id

\* The condition of the inner loop of _handle_word_order.
Precedes(ws, first_word, second_word) ==
  /\ ws[first_word].sentence_id = ws[second_word].sentence_id
  /\ ws[first_word].id < ws[second_word].id

\* _handle_word_order
_handle_word_order(ws, wbs, rel) ==
  LET parts == Split(rel, "~") IN
  IF Len(parts) # 2 THEN << >>
  ELSE LET first_words == _match_single_selector(ws, wbs, AsSimple(parts[1]))
           second_words == _match_single_selector(ws, wbs, AsSimple(parts[2]))
           pairs(f) ==
             Flatten([ n \in 1 .. Len(second_words) |->
                         IF Precedes(ws, f, second_words[n])
                         THEN <<f, second_words[n]>> ELSE << >> ])
       IN  Flatten([ m \in 1 .. Len(first_words) |-> pairs(first_words[m]) ])

(***************************************************************************)
(* query(selector).  The value is what the call returns or raises and the  *)
(* per-sentence lists it leaves behind.                                    *)
(***************************************************************************)
HasOp(rel, op) == \E i \in DOMAIN rel.ops : rel.ops[i] = op

\* QueryOne with the tests in the opposite order: ' ~ ', ' + ', ' > '.
QueryOne_PrecedenceFirst(ws, wbs, kids, rel) ==
  IF HasOp(rel, "~")
  THEN [wbs |-> wbs, results |-> _handle_word_order(ws, wbs, rel)]
  ELSE IF HasOp(rel, "+") THEN _handle_adjacent(ws, wbs, rel)
  ELSE IF HasOp(rel, ">")
  THEN [wbs |-> wbs, results |-> _handle_parent_child(ws, wbs, kids, rel)]
  ELSE [wbs |-> wbs,
        results |-> _match_single_selector(ws, wbs, AsSimple(rel))]

\* query() on a selector without a comma.
QueryOne(ws, wbs, kids, rel) ==
  IF HasOp(rel, ">")
  THEN [wbs |-> wbs, results |-> _handle_parent_child(ws, wbs, kids, rel)]
  ELSE IF HasOp(rel, "+") THEN _handle_adjacent(ws, wbs, rel)
  ELSE IF HasOp(rel, "~")
  THEN [wbs |-> wbs, results |-> _handle_word_order(ws, wbs, rel)]
  ELSE [wbs |-> wbs,
        results |-> _match_single_selector(ws, wbs, AsSimple(rel))]

\* The loop over selector.split(','), from the n-th part on.
RECURSIVE QueryParts(_, _, _, _, _)
QueryParts(ws, wbs, kids, alts, n) ==
  IF n > Len(alts) THEN [wbs |-> wbs, results |-> << >>]
  ELSE LET here == QueryOne(ws, wbs, kids, StripSelector(alts[n]))
           rest == QueryParts(ws, here.wbs, kids, alts, n + 1)
       IN  [wbs |-> rest.wbs, results |-> here.results \o rest.results]

\* list(set(results)): Word is a dataclass with eq and without frozen, so it
\* has no __hash__ and set() raises TypeError on the first element.
SetOfWords(list) ==
  IF list = << >>
  THEN [outcome |-> "ok", results |-> << >>]
  ELSE [outcome |-> "TypeError", results |-> << >>]

\* query(selector), selector given as the parts its commas separate.
query(ws, wbs, kids, alts) ==
  IF Len(alts) > 1
  THEN LET all == QueryParts(ws, wbs, kids, alts, 1)
           set == SetOfWords(all.results)
       IN  [outcome |-> set.outcome, results |-> set.results, wbs |-> all.wbs]
  ELSE LET one == QueryOne(ws, wbs, kids, alts[1])
       IN  [outcome |-> "ok", results |-> one.results, wbs |-> one.wbs]

(***************************************************************************)
(* The documents and the selectors the model draws its inputs from.        *)
(***************************************************************************)
Node(sentence, id, head, relation, code, form, lemma) ==
  [ sentence |-> sentence, id |-> id, head |-> head, relation |-> relation,
    postag |-> code, form |-> form, lemma |-> lemma ]

NounTag == <<"n", "-", "s", "-", "-", "-", "f", "a", "-">>
AdjectiveTag == <<"a", "-", "s", "-", "-", "-", "f", "a", "-">>
VerbTag == <<"v", "3", "s", "p", "i", "e", "-", "-", "-">>
PunctuationTag == <<"u">>

\* The <word> nodes documents are made of: two sentences that share word
\* ids, heads that are 0, resolvable, or the id of no word, two nodes of
\* different id under one head, the punctuation relation, and nodes that
\* share their id; one lemma is the character of a combinator.
NodePool ==
  { Node(1, 1, 0, "PRED", VerbTag, "v", <<"e", "1">>),
    Node(1, 2, 1, "ATR", NounTag, "x", <<"a">>),
    Node(1, 3, 2, "ATR", AdjectiveTag, "y", <<"b">>),
    Node(1, 3, 1, "ATR", NounTag, "y", <<"~">>),
    Node(1, 2, 0, "AuxK", PunctuationTag, ".", <<".">>),
    Node(1, 1, 3, "ATR", NounTag, "x", <<"a">>),
    Node(2, 2, 5, "OBJ", NounTag, "x", <<"a">>) }

\* A document: up to MaxWords nodes in any order, repetitions included.
Documents == UNION { [1 .. n -> NodePool] : n \in 1 .. MaxWords }

Noun == Pseudo("noun")
Verb == Pseudo("verb")
Adjective == Pseudo("adjective")
RelationATR == Attr("relation", "ATR")
AdjectiveATR == And(Adjective, RelationATR)
ATRFormX == And(RelationATR, Attr("form", "x"))
BeforeNoun == Before(Noun)
AfterVerb == After(Verb)

\* The operands of the combinators and of the comma.
Operands == {EmptySelector, Noun, Verb, ATRFormX}

\* The simple selectors queried on their own.
Simples ==
  Operands
    \cup { RootSelector, Adjective, RelationATR, AdjectiveATR, BeforeNoun,
           AfterVerb,
           Before(RelationATR), Before(RootSelector), Lemma(<<"a">>),
           Lemma(<<"e">>), Pseudo("accusative"), Pseudo("nown"),
           And(Noun, Pseudo("singular")), Pseudo("middle-passive"),
           And(Pseudo("third"), And(Pseudo("singular"), Verb)) }

Combinators == {">", "+", "~"}

\* The comma-free selectors.
Relations ==
  { Plain(s) : s \in Simples }
    \cup { Binary(a, op, b) : a \in Operands, op \in Combinators,
                              b \in Operands }
    \cup { Rel(<<a, b, c>>, <<op, op>>) :
             a \in {Noun}, b \in {Noun, Verb}, c \in {Noun, AdjectiveATR},
             op \in Combinators }
    \cup { Binary(BeforeNoun, op, Noun) : op \in Combinators }
    \cup { Binary(Verb, op, BeforeNoun) : op \in Combinators }
    \cup { Binary(Noun, ">", AdjectiveATR),
           Rel(<<Noun, Verb, Adjective>>, <<"+", ">">>),
           Rel(<<Noun, Verb, Adjective>>, <<"~", "+">>),
           Rel(<<Verb, Noun, Pseudo("singular")>>, <<">", "~">>),
           Rel(<<Noun, Noun, Pseudo("singular")>>, <<"+", "~">>) }

\* The selectors query() is called with: one comma-free selector, or two
\* joined by a comma.
Selectors ==
  { <<r>> : r \in Relations }
    \cup { <<Plain(a), Plain(b)>> : a \in Operands, b \in Operands }
    \cup { <<Binary(Noun, ">", AdjectiveATR), Plain(Verb)>>,
           <<Plain(Pseudo("nown")), Plain(Pseudo("verbb"))>>,
           <<Binary(EmptySelector, ">", Noun), Plain(Verb)>>,
           <<Binary(Noun, "+", Verb), Binary(Verb, "~", Noun)>> }

\* No call of parse_postag has returned yet.
NotParsed == [parsed |-> FALSE]

(***************************************************************************)
(* The engine after create_query_engine(document), and the calls on it.    *)
(***************************************************************************)
Init ==
  \E document \in Documents :
    /\ words = xml_to_words(document)
    /\ words_by_id = BuildIndex(words)
    /\ words_by_sentence = GroupBySentence(words)
    /\ children = LinkChildren(words, words_by_id)
    /\ selector = << >>
    /\ results = << >>
    /\ outcome = "none"
    /\ threads = << >>
    /\ postag = << >>
    /\ features = NotParsed
    /\ calls = 0
    /\ urn = [i \in DOMAIN words |-> 1]

\* One call query(sel), run to its end; the caller holds what it returned.
Query(sel) ==
  LET call == query(words, words_by_sentence, children, sel) IN
  /\ outcome = "none"
  /\ selector' = sel
  /\ results' = call.results
  /\ outcome' = call.outcome
  /\ words_by_sentence' = call.wbs
  /\ UNCHANGED << words, words_by_id, children, threads, decoder, urn >>

\* The caller is done with the returned list and may call again.
Discard ==
  /\ outcome # "none"
  /\ selector' = << >>
  /\ results' = << >>
  /\ outcome' = "none"
  /\ UNCHANGED << words, words_by_id, words_by_sentence, children, threads,
                  decoder, urn >>

Next ==
  \/ \E sel \in Selectors : Query(sel)
  \/ Discard

Spec == Init /\ [][Next]_vars

(***************************************************************************)
(* A corpus combined from two source documents: the engine is built on the *)
(* words of the first followed by the words of the second, and queried.    *)
(* Word ids are unique within a document only.                             *)
(***************************************************************************)
MaxDocWords == 2

SourceDocuments == {d \in Documents : Len(d) <= MaxDocWords}

CombinedSelectors ==
  { <<Binary(Verb, ">", Noun)>>, <<Binary(Noun, ">", Noun)>>,
    <<Plain(RootSelector)>> }

InitCombined ==
  \E first \in SourceDocuments, second \in SourceDocuments :
    /\ words = xml_to_words(first) \o xml_to_words(second)
    /\ urn = [i \in 1 .. (Len(first) + Len(second)) |->
                IF i <= Len(first) THEN 1 ELSE 2]
    /\ words_by_id = BuildIndex(words)
    /\ words_by_sentence = GroupBySentence(words)
    /\ children = LinkChildren(words, words_by_id)
    /\ selector = << >>
    /\ results = << >>
    /\ outcome = "none"
    /\ threads = << >>
    /\ postag = << >>
    /\ features = NotParsed
    /\ calls = 0

NextCombined ==
  \/ \E sel \in CombinedSelectors : Query(sel)
  \/ Discard

SpecCombined == InitCombined /\ [][NextCombined]_vars

(***************************************************************************)
(* The decoder on its own: parse_postag called, any number of times, on a  *)
(* code of any length up to MaxCode over characters that are '-', in some  *)
(* of the tables but not all ('n': part of speech, mood, gender and case)  *)
(* or in none ('z').                                                       *)
(***************************************************************************)
CodeCharacters == {"-", "n", "z"}

Codes == UNION { [1 .. n -> CodeCharacters] : n \in 0 .. MaxCode }

InitDecode ==
  /\ postag \in Codes
  /\ features = NotParsed
  /\ calls = 0
  /\ words = << >>
  /\ words_by_id = << >>
  /\ words_by_sentence = << >>
  /\ children = << >>
  /\ selector = << >>
  /\ results = << >>
  /\ outcome = "none"
  /\ threads = << >>
  /\ urn = << >>

\* One call features = parse_postag(postag).
ParsePostag ==
  /\ calls < MaxCalls
  /\ features' = parse_postag(postag)
  /\ calls' = calls + 1
  /\ UNCHANGED << words, words_by_id, words_by_sentence, children,
                  selector, results, outcome, threads, postag, urn >>

NextDecode == ParsePostag

SpecDecode == InitDecode /\ [][NextDecode]_vars

(***************************************************************************)
(* Concurrent calls.  Each thread runs one query() on the shared engine;   *)
(* the interpreter may switch threads between the steps below.  A thread   *)
(* is at step pc of its call: an adjacency query goes through "sort",      *)
(* "sorting", "len" and "window" for the n-th sentence, a simple query     *)
(* through "match" for the n-th word.  While list.sort() computes its keys *)
(* the list object is empty (CPython takes the items out for the duration  *)
(* of the sort and puts them back sorted); saved holds them meanwhile.     *)
(***************************************************************************)
MaxConcWords == 2

ConcDocuments == {d \in Documents : Len(d) <= MaxConcWords}

ConcSelectors ==
  { Binary(EmptySelector, "+", Noun), Binary(Verb, "+", Noun),
    Plain(BeforeNoun), Plain(AfterVerb) }

\* A thread that has just entered query(rel).
Start(rel) ==
  [ sel |-> rel,
    pc |-> IF HasOp(rel, "+") THEN "sort" ELSE "match",
    n |-> 1, i |-> 1, bound |-> 0, saved |-> << >>,
    results |-> << >>, outcome |-> "running" ]

InitConc ==
  \E document \in ConcDocuments :
    /\ words = xml_to_words(document)
    /\ words_by_id = BuildIndex(words)
    /\ words_by_sentence = GroupBySentence(words)
    /\ children = LinkChildren(words, words_by_id)
    /\ selector = << >>
    /\ results = << >>
    /\ outcome = "none"
    /\ threads \in [1 .. MaxThreads -> {Start(rel) : rel \in ConcSelectors}]
    /\ postag = << >>
    /\ features = NotParsed
    /\ calls = 0
    /\ urn = [i \in DOMAIN words |-> 1]

\* The sentence an adjacency thread is at.
SentenceOf(t) == SentenceOrder(words)[threads[t].n]

\* The thread goes on to the next sentence, or returns its results.
NextSentence(th) ==
  IF th.n < Len(SentenceOrder(words))
  THEN [th EXCEPT !.n = th.n + 1, !.pc = "sort"]
  ELSE [th EXCEPT !.pc = "done", !.outcome = "ok"]

\* sentence_words.sort(...) begins: the items are taken out of the list.  A
\* list that is empty has no key to compute and is sorted in this one step.
SortBegin(t) ==
  /\ threads[t].pc = "sort"
  /\ IF words_by_sentence[SentenceOf(t)] = << >>
     THEN /\ threads' = [threads EXCEPT ![t].pc = "len"]
          /\ UNCHANGED words_by_sentence
     ELSE /\ threads' = [threads EXCEPT
                           ![t].pc = "sorting",
                           ![t].saved = words_by_sentence[SentenceOf(t)]]
          /\ words_by_sentence' =
               [words_by_sentence EXCEPT ![SentenceOf(t)] = << >>]
  /\ UNCHANGED << words, words_by_id, children, selector, results, outcome,
                  decoder, urn >>

\* sentence_words.sort(...) ends: the items are put back, sorted.
SortEnd(t) ==
  /\ threads[t].pc = "sorting"
  /\ words_by_sentence' =
       [words_by_sentence EXCEPT
          ![SentenceOf(t)] = SortById(words, threads[t].saved)]
  /\ threads' = [threads EXCEPT ![t].pc = "len", ![t].saved = << >>]
  /\ UNCHANGED << words, words_by_id, children, selector, results, outcome,
                  decoder, urn >>

\* range(len(sentence_words) - len(parts) + 1) is evaluated.
ReadLen(t) ==
  /\ threads[t].pc = "len"
  /\ LET last == Len(words_by_sentence[SentenceOf(t)])
                   - Len(Split(threads[t].sel, "+")) + 1
     IN  threads' =
           [threads EXCEPT
              ![t] = IF last >= 1
                     THEN [@ EXCEPT !.pc = "window", !.i = 1, !.bound = last]
                     ELSE NextSentence(@)]
  /\ UNCHANGED << words, words_by_id, words_by_sentence, children,
                  selector, results, outcome, decoder, urn >>

\* One turn of the loop over i: the parts are tested on the words that are
\* at i, i + 1, ... of the list now; sentence_words[i + j] raises IndexError
\* if the list has become too short.
Window(t) ==
  /\ threads[t].pc = "window"
  /\ LET th == threads[t]
         list == words_by_sentence[SentenceOf(t)]
         parts == Split(th.sel, "+")
         Missing(j) == th.i + j - 1 > Len(list)
         Hit(j) == _word_matches_selector(words, words_by_sentence,
                                          list[th.i + j - 1],
                                          AsSimple(parts[j]))
         raises == \E j \in DOMAIN parts :
                     Missing(j) /\ \A k \in 1 .. (j - 1) : Hit(k)
         found == IF \A j \in DOMAIN parts : ~ Missing(j) /\ Hit(j)
                  THEN SubSeq(list, th.i, th.i + Len(parts) - 1)
                  ELSE << >>
         after == [th EXCEPT !.results = th.results \o found,
                             !.i = th.i + 1]
     IN  threads' =
           [threads EXCEPT
              ![t] = IF raises
                     THEN [th EXCEPT !.pc = "done", !.outcome = "IndexError",
                                     !.results = << >>]
                     ELSE IF after.i > th.bound THEN NextSentence(after)
                     ELSE after]
  /\ UNCHANGED << words, words_by_id, words_by_sentence, children,
                  selector, results, outcome, decoder, urn >>

\* One turn of the loop of _match_single_selector over self.words.
MatchWord(t) ==
  /\ threads[t].pc = "match"
  /\ LET th == threads[t]
         hit == _word_matches_selector(words, words_by_sentence, th.n,
                                       AsSimple(th.sel))
         after == [th EXCEPT
                     !.results = IF hit THEN Append(th.results, th.n)
                                 ELSE th.results,
                     !.n = th.n + 1]
     IN  threads' =
           [threads EXCEPT
              ![t] = IF after.n > Len(words)
                     THEN [after EXCEPT !.pc = "done", !.outcome = "ok"]
                     ELSE after]
  /\ UNCHANGED << words, words_by_id, words_by_sentence, children,
                  selector, results, outcome, decoder, urn >>

NextConc ==
  \E t \in DOMAIN threads :
    \/ SortBegin(t)
    \/ SortEnd(t)
    \/ ReadLen(t)
    \/ Window(t)
    \/ MatchWord(t)

SpecConc == InitConc /\ [][NextConc]_vars

(***************************************************************************)
(* Vocabulary of the properties.                                           *)
(***************************************************************************)
ToSet(list) == {list[i] : i \in DOMAIN list}

Count(list, x) == Cardinality({i \in DOMAIN list : list[i] = x})

\* The last call was query() of one comma-free selector "A op B".
Called(op) ==
  /\ outcome # "none"
  /\ Len(selector) = 1
  /\ selector[1].ops = <<op>>

\* The engine's simple-selector match of word w, in the current state.
Matches(w, sel) == _word_matches_selector(words, words_by_sentence, w, sel)

SameSentence(v, w) == words[v].sentence_id = words[w].sentence_id

\* What a simple selector says of a word: every predicate written in it
\* holds, the predicates inside :before(X) / :after(X) holding of another
\* word of the sentence.
RECURSIVE Satisfies(_, _)
Satisfies(w, sel) ==
  /\ \A n \in DOMAIN sel.attrs : AttrHolds(words[w], sel.attrs[n])
  /\ sel.root => words[w].parent_id = 0 /\ words[w].relation # "AuxK"
  /\ sel.before # << >> =>
       \E t \in DOMAIN words :
         SameSentence(t, w) /\ words[t].id > words[w].id
           /\ Satisfies(t, sel.before[1])
  /\ sel.after # << >> =>
       \E t \in DOMAIN words :
         SameSentence(t, w) /\ words[t].id < words[w].id
           /\ Satisfies(t, sel.after[1])
  /\ \A n \in DOMAIN sel.pseudos :
       \E i \in DOMAIN FeatureNames :
         PyEq(words[w][FeatureNames[i]], sel.pseudos[n])
  /\ sel.text # << >> => words[w].lemma = sel.text

(***************************************************************************)
(* C1: query("A, B") completes and returns each word of query(A) or        *)
(* query(B) exactly once, words being the same only if they are the same   *)
(* node, and query("B, A") contains the same words.                        *)
(***************************************************************************)
C1_CommaIsUnion ==
  (outcome # "none" /\ Len(selector) = 2) =>
    LET A == selector[1]
        B == selector[2]
        ofA == QueryOne(words, words_by_sentence, children, A).results
        ofB == QueryOne(words, words_by_sentence, children, B).results
        swapped == query(words, words_by_sentence, children, <<B, A>>)
    IN  /\ outcome = "ok"
        /\ ToSet(results) = ToSet(ofA) \cup ToSet(ofB)
        /\ \A w \in ToSet(results) : Count(results, w) = 1
        /\ swapped.outcome = "ok"
        /\ ToSet(swapped.results) = ToSet(results)

(***************************************************************************)
(* C2: no query() call changes the corpus: the word list, the index by id, *)
(* the child lists and the content and order of every per-sentence list    *)
(* are the same after the call as before it.                               *)
(***************************************************************************)
C2_QueryLeavesCorpusUnchanged == [][corpus' = corpus]_vars

(***************************************************************************)
(* C3: query("A > B") returns exactly the words that are in the child list *)
(* of a word satisfying A and that satisfy every predicate of B.           *)
(***************************************************************************)
C3_ChildrenSatisfyingAllOfB ==
  Called(">") =>
    LET A == selector[1].parts[1]
        B == selector[1].parts[2]
    IN  ToSet(results) =
          { c \in DOMAIN words :
              /\ \E p \in DOMAIN words :
                   Satisfies(p, A) /\ c \in ToSet(children[p])
              /\ Satisfies(c, B) }

(***************************************************************************)
(* C4 as claimed: no word returned by query("A > B") matches A.            *)
(***************************************************************************)
C4_NoResultMatchesA ==
  Called(">") =>
    \A c \in ToSet(results) : ~ Matches(c, selector[1].parts[1])

(***************************************************************************)
(* C4 as amended: every word returned by query("A > B") is in the child    *)
(* list of a word returned by query(A); it is returned for being such a    *)
(* child and may itself match A.                                           *)
(***************************************************************************)
C4_ResultsAreChildrenOfA ==
  Called(">") =>
    LET ofA == _match_single_selector(words, words_by_sentence,
                                      selector[1].parts[1])
    IN  \A c \in ToSet(results) :
          \E p \in ToSet(ofA) : c \in ToSet(children[p])

\* A noun that depends on a noun was returned by ":noun > :noun".
C4_Witness ==
  /\ Called(">")
  /\ selector[1].parts[1] = Noun
  /\ \E c \in ToSet(results) : Matches(c, Noun)

(***************************************************************************)
(* C5: a word is in the result of "P1 + ... + Pk" exactly if its sentence, *)
(* ordered by ascending word id (words of equal id in the order supplied), *)
(* has k consecutive words that match P1 .. Pk in turn, the word being one *)
(* of them; the order in which the words were supplied does not matter.    *)
(***************************************************************************)
\* The position of w in its sentence ordered by id.
Rank(w) ==
  1 + Cardinality({ v \in DOMAIN words :
                      /\ SameSentence(v, w)
                      /\ \/ words[v].id < words[w].id
                         \/ words[v].id = words[w].id /\ v < w })

\* The word at position r of the sentence of w is v.
AtRank(v, w, r) == SameSentence(v, w) /\ Rank(v) = r

InRun(w, parts) ==
  \E first \in DOMAIN words :
    /\ \A j \in DOMAIN parts :
         \E v \in DOMAIN words :
           AtRank(v, first, Rank(first) + j - 1) /\ Matches(v, parts[j])
    /\ SameSentence(w, first)
    /\ Rank(w) \in Rank(first) .. (Rank(first) + Len(parts) - 1)

CalledAdjacent ==
  /\ outcome # "none"
  /\ Len(selector) = 1
  /\ selector[1].ops # << >>
  /\ \A i \in DOMAIN selector[1].ops : selector[1].ops[i] = "+"

C5_AdjacentRuns ==
  CalledAdjacent =>
    /\ outcome = "ok"
    /\ ToSet(results) = {w \in DOMAIN words : InRun(w, selector[1].parts)}

\* Two words of a run were supplied in the reverse of their id order.
C5_Witness ==
  /\ CalledAdjacent
  /\ \E a \in ToSet(results), b \in ToSet(results) :
       SameSentence(a, b) /\ words[a].id < words[b].id /\ a > b

(***************************************************************************)
(* C6: query("A ~ B") holds one occurrence of a and one of b for every     *)
(* pair (a, b) with a matching A, b matching B, both of one sentence and   *)
(* a.id < b.id, and nothing else.                                          *)
(***************************************************************************)
QualifyingPairs(A, B) ==
  { pair \in (DOMAIN words) \X (DOMAIN words) :
      /\ Matches(pair[1], A)
      /\ Matches(pair[2], B)
      /\ SameSentence(pair[1], pair[2])
      /\ words[pair[1]].id < words[pair[2]].id }

C6_OnePerQualifyingPair ==
  Called("~") =>
    LET pairs == QualifyingPairs(selector[1].parts[1], selector[1].parts[2])
    IN  /\ outcome = "ok"
        /\ ToSet(results) \subseteq DOMAIN words
        /\ \A w \in DOMAIN words :
             Count(results, w) =
               Cardinality({pair \in pairs : pair[1] = w})
                 + Cardinality({pair \in pairs : pair[2] = w})

\* A word was returned once for each of two pairs it is in, and two words
\* that match A and B the other way round made no pair.
C6_Witness ==
  /\ Called("~")
  /\ \E w \in DOMAIN words : Count(results, w) >= 2
  /\ \E v \in DOMAIN words, w \in DOMAIN words :
       /\ Matches(v, selector[1].parts[1])
       /\ Matches(w, selector[1].parts[2])
       /\ SameSentence(v, w)
       /\ words[v].id > words[w].id

(***************************************************************************)
(* C7: query(":root") returns exactly the words whose head id is 0 and     *)
(* whose relation is not 'AuxK'.                                           *)
(***************************************************************************)
CalledRoot == outcome # "none" /\ selector = <<Plain(RootSelector)>>

C7_RootWords ==
  CalledRoot =>
    /\ outcome = "ok"
    /\ ToSet(results) =
         { w \in DOMAIN words :
             words[w].parent_id = 0 /\ words[w].relation # "AuxK" }
    /\ \A w \in ToSet(results) : Count(results, w) = 1

\* The corpus has a root, a head-0 'AuxK' word and a word whose head is the
\* id of no word.
C7_Witness ==
  /\ CalledRoot
  /\ results # << >>
  /\ \E w \in DOMAIN words :
       words[w].parent_id = 0 /\ words[w].relation = "AuxK"
  /\ \E w \in DOMAIN words :
       words[w].parent_id # 0 /\ words[w].parent_id \notin DOMAIN words_by_id

(***************************************************************************)
(* C8: every word is found in the index under its own id, so the index     *)
(* has one entry per word.                                                 *)
(***************************************************************************)
C8_IndexComplete ==
  /\ \A w \in DOMAIN words :
       words[w].id \in DOMAIN words_by_id /\ words_by_id[words[w].id] = w
  /\ Cardinality(DOMAIN words_by_id) = Len(words)

(***************************************************************************)
(* C9: a selector whose combinator has an empty operand, or ('>' and '~')  *)
(* other than two operands, makes query() fail with a selector error.      *)
(***************************************************************************)
ArityMismatch(rel) ==
  /\ rel.ops # << >>
  /\ \/ \E i \in DOMAIN rel.parts : rel.parts[i] = EmptySelector
     \/ HasOp(rel, ">") /\ Len(Split(rel, ">")) # 2
     \/ ~ HasOp(rel, ">") /\ ~ HasOp(rel, "+") /\ Len(Split(rel, "~")) # 2

C9_ArityMismatchFails ==
  (outcome # "none" /\ Len(selector) = 1 /\ ArityMismatch(selector[1])) =>
    outcome = "SelectorError"

(***************************************************************************)
(* C10: every call that runs concurrently with others on one engine        *)
(* returns what it returns when it runs alone on the engine as built.      *)
(***************************************************************************)
AloneResult(rel) ==
  query(words, GroupBySentence(words), children, <<rel>>)

C10_ConcurrentCallsReturnAloneResult ==
  \A t \in DOMAIN threads :
    threads[t].pc = "done" =>
      /\ threads[t].outcome = AloneResult(threads[t].sel).outcome
      /\ threads[t].results = AloneResult(threads[t].sel).results

(***************************************************************************)
(* C11: parse_postag returns, for a code of any length and any characters, *)
(* a record of exactly the nine categories and never raises; a category is *)
(* absent when the code has no such position, or has '-' there, or a       *)
(* character that is not in the category's table, and is otherwise the     *)
(* table's name for the character; every call on a code returns the same.  *)
(***************************************************************************)
Parsed == calls >= 1

\* The category at position i of the code is absent.
AbsentAt(code, i) ==
  \/ i > Len(code)
  \/ code[i] = "-"
  \/ \A p \in postag_mappings[FeatureNames[i]] : p[1] # code[i]

C11_ParsePostagTotal ==
  Parsed =>
    /\ features # IndexError
    /\ DOMAIN features = {FeatureNames[i] : i \in DOMAIN FeatureNames}
    /\ \A i \in DOMAIN FeatureNames :
         IF AbsentAt(postag, i)
         THEN features[FeatureNames[i]] = None
         ELSE <<postag[i], features[FeatureNames[i]]>>
                \in postag_mappings[FeatureNames[i]]

\* A code shorter than nine characters was decoded a second time; it has a
\* character of its category's table, one of another category's table and
\* one of no table.
C11_Witness ==
  /\ calls = 2
  /\ Len(postag) < PostagWidth
  /\ features.part_of_speech = "noun"
  /\ Len(postag) >= 3 /\ postag[2] = "n" /\ postag[3] = "z"
  /\ features.person = None /\ features.number = None

(***************************************************************************)
(* C12: a word returned by query() of a simple selector satisfies every    *)
(* [name=value] predicate written in the selector, not only the first:     *)
(* the word has a field of that name whose value is the value text.        *)
(***************************************************************************)
CalledSimple ==
  /\ outcome # "none"
  /\ Len(selector) = 1
  /\ selector[1].ops = << >>

C12_EveryAttributeHolds ==
  CalledSimple =>
    LET sel == selector[1].parts[1] IN
    \A w \in ToSet(results) :
      \A n \in DOMAIN sel.attrs : AttrHolds(words[w], sel.attrs[n])

(***************************************************************************)
(* C13: query() of bare ':token' pseudo-classes returns, without raising,  *)
(* exactly the words that have, for each token, a feature field (of any    *)
(* of the nine categories) whose decoded value is the token; so a token    *)
(* that is no word's feature value gives an empty result.                  *)
(***************************************************************************)
CalledPseudos ==
  /\ CalledSimple
  /\ selector[1].parts[1].pseudos # << >>
  /\ selector[1].parts[1] =
       Simple(<< >>, FALSE, << >>, << >>, selector[1].parts[1].pseudos, << >>)

HasFeatureValue(w, token) ==
  \E i \in DOMAIN FeatureNames : PyEq(words[w][FeatureNames[i]], token)

C13_TokenEqualsSomeFeature ==
  CalledPseudos =>
    LET tokens == selector[1].parts[1].pseudos IN
    /\ outcome = "ok"
    /\ ToSet(results) =
         { w \in DOMAIN words :
             \A n \in DOMAIN tokens : HasFeatureValue(w, tokens[n]) }
    /\ \A w \in ToSet(results) : Count(results, w) = 1

(***************************************************************************)
(* C14: whatever queries ran on the corpus before it, query(s) of a        *)
(* comma-free selector s returns the sequence of words it returns when it  *)
(* is the first call on the corpus as built, and the same call made again  *)
(* at once returns that sequence too.                                      *)
(***************************************************************************)
CalledCommaFree == outcome # "none" /\ Len(selector) = 1

C14_QueryRepeatable ==
  CalledCommaFree =>
    LET first == query(words, GroupBySentence(words), children, selector)
        again == query(words, words_by_sentence, children, selector)
    IN  /\ outcome = first.outcome
        /\ results = first.results
        /\ again.outcome = outcome
        /\ again.results = results

\* An earlier adjacency query has reordered a per-sentence list, and the
\* last query, which reads the list and does not sort it, found words.
C14_Witness ==
  /\ CalledCommaFree
  /\ selector = <<Plain(BeforeNoun)>>
  /\ words_by_sentence # GroupBySentence(words)
  /\ results # << >>

(***************************************************************************)
(* C15: query(":before(X)") returns exactly the words w for which a word   *)
(* of w's sentence with an id greater than w.id matches X, and             *)
(* query(":after(X)") those for which one with a smaller id does; the      *)
(* predicates of X (attributes, :root, features, lemma) are tested on that *)
(* other word, not on w.                                                   *)
(***************************************************************************)
CalledBefore ==
  /\ CalledSimple
  /\ selector[1].parts[1].before # << >>
  /\ selector[1].parts[1] = Before(selector[1].parts[1].before[1])

CalledAfter ==
  /\ CalledSimple
  /\ selector[1].parts[1].after # << >>
  /\ selector[1].parts[1] = After(selector[1].parts[1].after[1])

C15_OrderTestsTheOtherWord ==
  /\ CalledBefore =>
       ToSet(results) =
         { w \in DOMAIN words :
             \E t \in DOMAIN words :
               /\ SameSentence(t, w)
               /\ words[t].id > words[w].id
               /\ Matches(t, selector[1].parts[1].before[1]) }
  /\ CalledAfter =>
       ToSet(results) =
         { w \in DOMAIN words :
             \E t \in DOMAIN words :
               /\ SameSentence(t, w)
               /\ words[t].id < words[w].id
               /\ Matches(t, selector[1].parts[1].after[1]) }

(***************************************************************************)
(* C16: after the linking pass a word w is in the child list of p exactly  *)
(* if the index maps w's head id to p; a word is in at most one child list *)
(* and at most once; each child list is in the order of the input, not of  *)
(* the ids; a word whose head id is no word's id stays in the corpus, in   *)
(* no child list.                                                          *)
(***************************************************************************)
Resolves(w, p) ==
  /\ words[w].parent_id \in DOMAIN words_by_id
  /\ words_by_id[words[w].parent_id] = p

C16_ChildLists ==
  /\ DOMAIN children = DOMAIN words
  /\ \A p \in DOMAIN words :
       /\ ToSet(children[p]) = {w \in DOMAIN words : Resolves(w, p)}
       /\ \A i \in DOMAIN children[p], j \in DOMAIN children[p] :
            i < j => children[p][i] < children[p][j]
  /\ \A w \in DOMAIN words :
       Cardinality({p \in DOMAIN words : w \in ToSet(children[p])}) <= 1
  /\ \A w \in DOMAIN words :
       words[w].parent_id \notin DOMAIN words_by_id =>
         \A p \in DOMAIN words : w \notin ToSet(children[p])

\* A word has two children that were supplied in the reverse of their id
\* order, and its own head is the id of no word.
C16_Witness ==
  \E p \in DOMAIN words :
    /\ Len(children[p]) = 2
    /\ words[children[p][1]].id > words[children[p][2]].id
    /\ words[p].parent_id \notin DOMAIN words_by_id

(***************************************************************************)
(* C17: in a corpus combined from several documents, a word is in the      *)
(* child list only of the word that has its head id in its own document,   *)
(* never of a word of another document that has the same raw id.           *)
(***************************************************************************)
C17_ParentInOwnDocument ==
  \A p \in DOMAIN words :
    \A w \in ToSet(children[p]) :
      /\ urn[p] = urn[w]
      /\ words[p].id = words[w].parent_id

(***************************************************************************)
(* C18: query() of a comma-free selector applies one rule only: the child  *)
(* rule if ' > ' is written in it, else the adjacency rule if ' + ' is,    *)
(* else the precedence rule if ' ~ ' is, else the simple match.  The other *)
(* combinators written in it do not act as combinators: with ' > ' every   *)
(* returned word is a child, one hop, of some word, and with ' + ' and no  *)
(* ' > ' the words come in runs of consecutive words of a sentence.        *)
(***************************************************************************)
ByRule(rel) ==
  IF HasOp(rel, ">")
  THEN _handle_parent_child(words, words_by_sentence, children, rel)
  ELSE IF HasOp(rel, "+")
  THEN _handle_adjacent(words, words_by_sentence, rel).results
  ELSE IF HasOp(rel, "~")
  THEN _handle_word_order(words, words_by_sentence, rel)
  ELSE _match_single_selector(words, words_by_sentence, AsSimple(rel))

\* The last call was of a selector with two different combinators.
CalledMixed ==
  /\ CalledCommaFree
  /\ \E i \in DOMAIN selector[1].ops, j \in DOMAIN selector[1].ops :
       selector[1].ops[i] # selector[1].ops[j]

C18_OneRuleInFixedOrder ==
  CalledCommaFree =>
    /\ outcome = "ok"
    /\ results = ByRule(selector[1])
    /\ HasOp(selector[1], ">") =>
         \A c \in ToSet(results) :
           \E p \in DOMAIN words : c \in ToSet(children[p])
    /\ (~ HasOp(selector[1], ">") /\ HasOp(selector[1], "+")) =>
         Len(results) % Len(Split(selector[1], "+")) = 0

\* A selector with ' > ' and ' ~ ' returned a child whose lemma is '~'.
C18_Witness ==
  /\ CalledMixed
  /\ HasOp(selector[1], ">") /\ HasOp(selector[1], "~")
  /\ results # << >>

====
